---- MODULE Spec2Model ----
(***************************************************************************)
(* Model of the euclid geometry primitives: the 4x4 homogeneous matrix     *)
(* Matrix4 (src/src/matrix.rs) and the generic points Point2D / Point3D /  *)
(* Point4D (src/src/point.rs).                                             *)
(*                                                                         *)
(* Every operation of the library is a pure function of its receiver and   *)
(* arguments.  The state machine below is one use of the library: a value  *)
(* is constructed (a matrix or a point), then one operation is applied to  *)
(* it and its result recorded.                                             *)
(*   pc     "new" -> "built" -> "done"                                     *)
(*   ctor   the constructor that built the receiver, cargs its arguments   *)
(*   recv   the receiver (self) of the operation                           *)
(*   op     the operation applied, args its arguments, out its result      *)
(*                                                                         *)
(* Scalars.  An f32 (and the generic T of the points) is modelled as an    *)
(* exact value <<n, d>>: the rational n/d in lowest terms with d > 0, or   *)
(* one of the IEEE special values  <<1,0>> = +Inf, <<-1,0>> = -Inf,        *)
(* <<0,0>> = NaN, which only a division by zero can produce.  Rounding and *)
(* signed zeros are not modelled.                                          *)
(***************************************************************************)
EXTENDS Integers, Sequences, FiniteSets, TLC

VARIABLES pc, ctor, cargs, recv, op, args, out

vars == <<pc, ctor, cargs, recv, op, args, out>>

(***************************************************************************)
(* Bounds of the explored inputs.                                          *)
(***************************************************************************)
\* extra matrix entries range over 1..MaxEntry
MaxEntry == 2
\* point coordinates of the grid range over -MaxCoord..MaxCoord
MaxCoord == 1
\* scalar factors of mul_s / scale range over -1..MaxFactor
MaxFactor == 2

(***************************************************************************)
(* Scalar arithmetic (f32 and the points' generic T).                      *)
(***************************************************************************)
Abs(n) == IF n < 0 THEN -n ELSE n

Sgn(n) == IF n < 0 THEN -1 ELSE IF n > 0 THEN 1 ELSE 0

RECURSIVE Gcd(_, _)
Gcd(a, b) == IF b = 0 THEN a ELSE Gcd(b, a % b)

\* the scalar n/d; d = 0 gives the special values
Norm(n, d) ==
    IF d = 0 THEN <<Sgn(n), 0>>
    ELSE LET g == Gcd(Abs(n), Abs(d))
         IN  <<Sgn(d) * (n \div g), Abs(d) \div g>>

\* an integer literal as a scalar
F(n) == <<n, 1>>

Zero == F(0)

One == F(1)

NaN == <<0, 0>>

IsFinite(a) == a[2] # 0

\* a * b
Mul(a, b) ==
    IF a[2] = 1 /\ b[2] = 1 THEN <<a[1] * b[1], 1>>
    ELSE Norm(a[1] * b[1], a[2] * b[2])

\* a + b
Add(a, b) ==
    IF a[2] = 1 /\ b[2] = 1 THEN <<a[1] + b[1], 1>>
    ELSE IF a[2] = 0 /\ b[2] = 0 THEN (IF a = b THEN a ELSE NaN)
    ELSE Norm(a[1] * b[2] + b[1] * a[2], a[2] * b[2])

\* -a
Neg(a) == <<-a[1], a[2]>>

\* a - b
Sub(a, b) == Add(a, Neg(b))

\* a / b
Div(a, b) == Mul(a, Norm(b[2], b[1]))

\* a == b on f32: NaN equals nothing
Eq(a, b) == a # NaN /\ b # NaN /\ a = b

(***************************************************************************)
(* Matrix4                                                                 *)
(***************************************************************************)
Fields ==
    {"m11", "m12", "m13", "m14", "m21", "m22", "m23", "m24",
     "m31", "m32", "m33", "m34", "m41", "m42", "m43", "m44"}

new(m11, m12, m13, m14, m21, m22, m23, m24, m31, m32, m33, m34, m41, m42, m43, m44) ==
    [m11 |-> m11, m12 |-> m12, m13 |-> m13, m14 |-> m14,
     m21 |-> m21, m22 |-> m22, m23 |-> m23, m24 |-> m24,
     m31 |-> m31, m32 |-> m32, m33 |-> m33, m34 |-> m34,
     m41 |-> m41, m42 |-> m42, m43 |-> m43, m44 |-> m44]

identity ==
    new(One,  Zero, Zero, Zero,
        Zero, One,  Zero, Zero,
        Zero, Zero, One,  Zero,
        Zero, Zero, Zero, One)

\* derived PartialEq of Matrix4: every field equal
eq(self, other) == \A f \in Fields : Eq(self[f], other[f])

(***************************************************************************)
(* Points                                                                  *)
(***************************************************************************)
Point2D_new(x, y) == [x |-> x, y |-> y]

Point3D_new(x, y, z) == [x |-> x, y |-> y, z |-> z]

Point4D_new(x, y, z, w) == [x |-> x, y |-> y, z |-> z, w |-> w]

Point2D_cross(self, other) ==
    Sub(Mul(self.x, other.y), Mul(self.y, other.x))

\* faulty variant of Point3D_cross: the y component with its operands exchanged
Point3D_cross_lefthanded(self, other) ==
    Point3D_new(Sub(Mul(self.y, other.z), Mul(self.z, other.y)),
                Sub(Mul(self.x, other.z), Mul(self.z, other.x)),
                Sub(Mul(self.x, other.y), Mul(self.y, other.x)))

Point3D_cross(self, other) ==
    Point3D_new(Sub(Mul(self.y, other.z), Mul(self.z, other.y)),
                Sub(Mul(self.z, other.x), Mul(self.x, other.z)),
                Sub(Mul(self.x, other.y), Mul(self.y, other.x)))

(***************************************************************************)
(* Matrix4 operations                                                      *)
(***************************************************************************)
\* faulty variant of mul: the roles of self and m exchanged
mul_swapped(self, m) ==
    new(
        Add(Add(Add(Mul(self.m11, m.m11), Mul(self.m12, m.m21)), Mul(self.m13, m.m31)),
            Mul(self.m14, m.m41)),
        Add(Add(Add(Mul(self.m11, m.m12), Mul(self.m12, m.m22)), Mul(self.m13, m.m32)),
            Mul(self.m14, m.m42)),
        Add(Add(Add(Mul(self.m11, m.m13), Mul(self.m12, m.m23)), Mul(self.m13, m.m33)),
            Mul(self.m14, m.m43)),
        Add(Add(Add(Mul(self.m11, m.m14), Mul(self.m12, m.m24)), Mul(self.m13, m.m34)),
            Mul(self.m14, m.m44)),
        Add(Add(Add(Mul(self.m21, m.m11), Mul(self.m22, m.m21)), Mul(self.m23, m.m31)),
            Mul(self.m24, m.m41)),
        Add(Add(Add(Mul(self.m21, m.m12), Mul(self.m22, m.m22)), Mul(self.m23, m.m32)),
            Mul(self.m24, m.m42)),
        Add(Add(Add(Mul(self.m21, m.m13), Mul(self.m22, m.m23)), Mul(self.m23, m.m33)),
            Mul(self.m24, m.m43)),
        Add(Add(Add(Mul(self.m21, m.m14), Mul(self.m22, m.m24)), Mul(self.m23, m.m34)),
            Mul(self.m24, m.m44)),
        Add(Add(Add(Mul(self.m31, m.m11), Mul(self.m32, m.m21)), Mul(self.m33, m.m31)),
            Mul(self.m34, m.m41)),
        Add(Add(Add(Mul(self.m31, m.m12), Mul(self.m32, m.m22)), Mul(self.m33, m.m32)),
            Mul(self.m34, m.m42)),
        Add(Add(Add(Mul(self.m31, m.m13), Mul(self.m32, m.m23)), Mul(self.m33, m.m33)),
            Mul(self.m34, m.m43)),
        Add(Add(Add(Mul(self.m31, m.m14), Mul(self.m32, m.m24)), Mul(self.m33, m.m34)),
            Mul(self.m34, m.m44)),
        Add(Add(Add(Mul(self.m41, m.m11), Mul(self.m42, m.m21)), Mul(self.m43, m.m31)),
            Mul(self.m44, m.m41)),
        Add(Add(Add(Mul(self.m41, m.m12), Mul(self.m42, m.m22)), Mul(self.m43, m.m32)),
            Mul(self.m44, m.m42)),
        Add(Add(Add(Mul(self.m41, m.m13), Mul(self.m42, m.m23)), Mul(self.m43, m.m33)),
            Mul(self.m44, m.m43)),
        Add(Add(Add(Mul(self.m41, m.m14), Mul(self.m42, m.m24)), Mul(self.m43, m.m34)),
            Mul(self.m44, m.m44)))

\* faulty variant of mul: the fourth product of every sum left out
mul_dropw(self, m) ==
    new(
        Add(Add(Mul(m.m11, self.m11), Mul(m.m12, self.m21)), Mul(m.m13, self.m31)),
        Add(Add(Mul(m.m11, self.m12), Mul(m.m12, self.m22)), Mul(m.m13, self.m32)),
        Add(Add(Mul(m.m11, self.m13), Mul(m.m12, self.m23)), Mul(m.m13, self.m33)),
        Add(Add(Mul(m.m11, self.m14), Mul(m.m12, self.m24)), Mul(m.m13, self.m34)),
        Add(Add(Mul(m.m21, self.m11), Mul(m.m22, self.m21)), Mul(m.m23, self.m31)),
        Add(Add(Mul(m.m21, self.m12), Mul(m.m22, self.m22)), Mul(m.m23, self.m32)),
        Add(Add(Mul(m.m21, self.m13), Mul(m.m22, self.m23)), Mul(m.m23, self.m33)),
        Add(Add(Mul(m.m21, self.m14), Mul(m.m22, self.m24)), Mul(m.m23, self.m34)),
        Add(Add(Mul(m.m31, self.m11), Mul(m.m32, self.m21)), Mul(m.m33, self.m31)),
        Add(Add(Mul(m.m31, self.m12), Mul(m.m32, self.m22)), Mul(m.m33, self.m32)),
        Add(Add(Mul(m.m31, self.m13), Mul(m.m32, self.m23)), Mul(m.m33, self.m33)),
        Add(Add(Mul(m.m31, self.m14), Mul(m.m32, self.m24)), Mul(m.m33, self.m34)),
        Add(Add(Mul(m.m41, self.m11), Mul(m.m42, self.m21)), Mul(m.m43, self.m31)),
        Add(Add(Mul(m.m41, self.m12), Mul(m.m42, self.m22)), Mul(m.m43, self.m32)),
        Add(Add(Mul(m.m41, self.m13), Mul(m.m42, self.m23)), Mul(m.m43, self.m33)),
        Add(Add(Mul(m.m41, self.m14), Mul(m.m42, self.m24)), Mul(m.m43, self.m34)))

\* self.mul(m)
mul(self, m) ==
    new(
        Add(Add(Add(Mul(m.m11, self.m11), Mul(m.m12, self.m21)), Mul(m.m13, self.m31)),
            Mul(m.m14, self.m41)),
        Add(Add(Add(Mul(m.m11, self.m12), Mul(m.m12, self.m22)), Mul(m.m13, self.m32)),
            Mul(m.m14, self.m42)),
        Add(Add(Add(Mul(m.m11, self.m13), Mul(m.m12, self.m23)), Mul(m.m13, self.m33)),
            Mul(m.m14, self.m43)),
        Add(Add(Add(Mul(m.m11, self.m14), Mul(m.m12, self.m24)), Mul(m.m13, self.m34)),
            Mul(m.m14, self.m44)),
        Add(Add(Add(Mul(m.m21, self.m11), Mul(m.m22, self.m21)), Mul(m.m23, self.m31)),
            Mul(m.m24, self.m41)),
        Add(Add(Add(Mul(m.m21, self.m12), Mul(m.m22, self.m22)), Mul(m.m23, self.m32)),
            Mul(m.m24, self.m42)),
        Add(Add(Add(Mul(m.m21, self.m13), Mul(m.m22, self.m23)), Mul(m.m23, self.m33)),
            Mul(m.m24, self.m43)),
        Add(Add(Add(Mul(m.m21, self.m14), Mul(m.m22, self.m24)), Mul(m.m23, self.m34)),
            Mul(m.m24, self.m44)),
        Add(Add(Add(Mul(m.m31, self.m11), Mul(m.m32, self.m21)), Mul(m.m33, self.m31)),
            Mul(m.m34, self.m41)),
        Add(Add(Add(Mul(m.m31, self.m12), Mul(m.m32, self.m22)), Mul(m.m33, self.m32)),
            Mul(m.m34, self.m42)),
        Add(Add(Add(Mul(m.m31, self.m13), Mul(m.m32, self.m23)), Mul(m.m33, self.m33)),
            Mul(m.m34, self.m43)),
        Add(Add(Add(Mul(m.m31, self.m14), Mul(m.m32, self.m24)), Mul(m.m33, self.m34)),
            Mul(m.m34, self.m44)),
        Add(Add(Add(Mul(m.m41, self.m11), Mul(m.m42, self.m21)), Mul(m.m43, self.m31)),
            Mul(m.m44, self.m41)),
        Add(Add(Add(Mul(m.m41, self.m12), Mul(m.m42, self.m22)), Mul(m.m43, self.m32)),
            Mul(m.m44, self.m42)),
        Add(Add(Add(Mul(m.m41, self.m13), Mul(m.m42, self.m23)), Mul(m.m43, self.m33)),
            Mul(m.m44, self.m43)),
        Add(Add(Add(Mul(m.m41, self.m14), Mul(m.m42, self.m24)), Mul(m.m43, self.m34)),
            Mul(m.m44, self.m44)))

\* faulty variant of mul_s: m44 has x added instead of multiplied
mul_s_typo(self, x) ==
    new(
        Mul(self.m11, x),
        Mul(self.m12, x),
        Mul(self.m13, x),
        Mul(self.m14, x),
        Mul(self.m21, x),
        Mul(self.m22, x),
        Mul(self.m23, x),
        Mul(self.m24, x),
        Mul(self.m31, x),
        Mul(self.m32, x),
        Mul(self.m33, x),
        Mul(self.m34, x),
        Mul(self.m41, x),
        Mul(self.m42, x),
        Mul(self.m43, x),
        Add(self.m44, x))

\* self.mul_s(x)
mul_s(self, x) ==
    new(
        Mul(self.m11, x),
        Mul(self.m12, x),
        Mul(self.m13, x),
        Mul(self.m14, x),
        Mul(self.m21, x),
        Mul(self.m22, x),
        Mul(self.m23, x),
        Mul(self.m24, x),
        Mul(self.m31, x),
        Mul(self.m32, x),
        Mul(self.m33, x),
        Mul(self.m34, x),
        Mul(self.m41, x),
        Mul(self.m42, x),
        Mul(self.m43, x),
        Mul(self.m44, x))

\* faulty variant of determinant: the third term added instead of subtracted
determinant_signflip(self) ==
    LET t01 == Mul(Mul(Mul(self.m14, self.m23), self.m32), self.m41)
        t02 == Mul(Mul(Mul(self.m13, self.m24), self.m32), self.m41)
        t03 == Mul(Mul(Mul(self.m14, self.m22), self.m33), self.m41)
        t04 == Mul(Mul(Mul(self.m12, self.m24), self.m33), self.m41)
        t05 == Mul(Mul(Mul(self.m13, self.m22), self.m34), self.m41)
        t06 == Mul(Mul(Mul(self.m12, self.m23), self.m34), self.m41)
        t07 == Mul(Mul(Mul(self.m14, self.m23), self.m31), self.m42)
        t08 == Mul(Mul(Mul(self.m13, self.m24), self.m31), self.m42)
        t09 == Mul(Mul(Mul(self.m14, self.m21), self.m33), self.m42)
        t10 == Mul(Mul(Mul(self.m11, self.m24), self.m33), self.m42)
        t11 == Mul(Mul(Mul(self.m13, self.m21), self.m34), self.m42)
        t12 == Mul(Mul(Mul(self.m11, self.m23), self.m34), self.m42)
        t13 == Mul(Mul(Mul(self.m14, self.m22), self.m31), self.m43)
        t14 == Mul(Mul(Mul(self.m12, self.m24), self.m31), self.m43)
        t15 == Mul(Mul(Mul(self.m14, self.m21), self.m32), self.m43)
        t16 == Mul(Mul(Mul(self.m11, self.m24), self.m32), self.m43)
        t17 == Mul(Mul(Mul(self.m12, self.m21), self.m34), self.m43)
        t18 == Mul(Mul(Mul(self.m11, self.m22), self.m34), self.m43)
        t19 == Mul(Mul(Mul(self.m13, self.m22), self.m31), self.m44)
        t20 == Mul(Mul(Mul(self.m12, self.m23), self.m31), self.m44)
        t21 == Mul(Mul(Mul(self.m13, self.m21), self.m32), self.m44)
        t22 == Mul(Mul(Mul(self.m11, self.m23), self.m32), self.m44)
        t23 == Mul(Mul(Mul(self.m12, self.m21), self.m33), self.m44)
        t24 == Mul(Mul(Mul(self.m11, self.m22), self.m33), self.m44)
    IN  Add(Sub(Sub(Add(Add(Sub(Sub(Add(Add(Sub(Sub(Add(Add(Sub(Sub(Add(Add(Sub(Sub(Add(Add(Add(Sub(t01,
        t02), t03), t04), t05), t06), t07), t08), t09), t10), t11), t12), t13), t14), t15), t16),
        t17), t18), t19), t20), t21), t22), t23), t24)

determinant(self) ==
    LET t01 == Mul(Mul(Mul(self.m14, self.m23), self.m32), self.m41)
        t02 == Mul(Mul(Mul(self.m13, self.m24), self.m32), self.m41)
        t03 == Mul(Mul(Mul(self.m14, self.m22), self.m33), self.m41)
        t04 == Mul(Mul(Mul(self.m12, self.m24), self.m33), self.m41)
        t05 == Mul(Mul(Mul(self.m13, self.m22), self.m34), self.m41)
        t06 == Mul(Mul(Mul(self.m12, self.m23), self.m34), self.m41)
        t07 == Mul(Mul(Mul(self.m14, self.m23), self.m31), self.m42)
        t08 == Mul(Mul(Mul(self.m13, self.m24), self.m31), self.m42)
        t09 == Mul(Mul(Mul(self.m14, self.m21), self.m33), self.m42)
        t10 == Mul(Mul(Mul(self.m11, self.m24), self.m33), self.m42)
        t11 == Mul(Mul(Mul(self.m13, self.m21), self.m34), self.m42)
        t12 == Mul(Mul(Mul(self.m11, self.m23), self.m34), self.m42)
        t13 == Mul(Mul(Mul(self.m14, self.m22), self.m31), self.m43)
        t14 == Mul(Mul(Mul(self.m12, self.m24), self.m31), self.m43)
        t15 == Mul(Mul(Mul(self.m14, self.m21), self.m32), self.m43)
        t16 == Mul(Mul(Mul(self.m11, self.m24), self.m32), self.m43)
        t17 == Mul(Mul(Mul(self.m12, self.m21), self.m34), self.m43)
        t18 == Mul(Mul(Mul(self.m11, self.m22), self.m34), self.m43)
        t19 == Mul(Mul(Mul(self.m13, self.m22), self.m31), self.m44)
        t20 == Mul(Mul(Mul(self.m12, self.m23), self.m31), self.m44)
        t21 == Mul(Mul(Mul(self.m13, self.m21), self.m32), self.m44)
        t22 == Mul(Mul(Mul(self.m11, self.m23), self.m32), self.m44)
        t23 == Mul(Mul(Mul(self.m12, self.m21), self.m33), self.m44)
        t24 == Mul(Mul(Mul(self.m11, self.m22), self.m33), self.m44)
    IN  Add(Sub(Sub(Add(Add(Sub(Sub(Add(Add(Sub(Sub(Add(Add(Sub(Sub(Add(Add(Sub(Sub(Add(Add(Sub(Sub(t01,
        t02), t03), t04), t05), t06), t07), t08), t09), t10), t11), t12), t13), t14), t15), t16),
        t17), t18), t19), t20), t21), t22), t23), t24)

\* the matrix m of invert: the adjugate of self
adjugate(self) ==
    new(
        Add(Sub(Sub(Add(Sub(Mul(Mul(self.m23, self.m34), self.m42), Mul(Mul(self.m24,
            self.m33), self.m42)), Mul(Mul(self.m24, self.m32), self.m43)),
            Mul(Mul(self.m22, self.m34), self.m43)), Mul(Mul(self.m23, self.m32),
            self.m44)), Mul(Mul(self.m22, self.m33), self.m44)),
        Sub(Add(Add(Sub(Sub(Mul(Mul(self.m14, self.m33), self.m42), Mul(Mul(self.m13,
            self.m34), self.m42)), Mul(Mul(self.m14, self.m32), self.m43)),
            Mul(Mul(self.m12, self.m34), self.m43)), Mul(Mul(self.m13, self.m32),
            self.m44)), Mul(Mul(self.m12, self.m33), self.m44)),
        Add(Sub(Sub(Add(Sub(Mul(Mul(self.m13, self.m24), self.m42), Mul(Mul(self.m14,
            self.m23), self.m42)), Mul(Mul(self.m14, self.m22), self.m43)),
            Mul(Mul(self.m12, self.m24), self.m43)), Mul(Mul(self.m13, self.m22),
            self.m44)), Mul(Mul(self.m12, self.m23), self.m44)),
        Sub(Add(Add(Sub(Sub(Mul(Mul(self.m14, self.m23), self.m32), Mul(Mul(self.m13,
            self.m24), self.m32)), Mul(Mul(self.m14, self.m22), self.m33)),
            Mul(Mul(self.m12, self.m24), self.m33)), Mul(Mul(self.m13, self.m22),
            self.m34)), Mul(Mul(self.m12, self.m23), self.m34)),
        Sub(Add(Add(Sub(Sub(Mul(Mul(self.m24, self.m33), self.m41), Mul(Mul(self.m23,
            self.m34), self.m41)), Mul(Mul(self.m24, self.m31), self.m43)),
            Mul(Mul(self.m21, self.m34), self.m43)), Mul(Mul(self.m23, self.m31),
            self.m44)), Mul(Mul(self.m21, self.m33), self.m44)),
        Add(Sub(Sub(Add(Sub(Mul(Mul(self.m13, self.m34), self.m41), Mul(Mul(self.m14,
            self.m33), self.m41)), Mul(Mul(self.m14, self.m31), self.m43)),
            Mul(Mul(self.m11, self.m34), self.m43)), Mul(Mul(self.m13, self.m31),
            self.m44)), Mul(Mul(self.m11, self.m33), self.m44)),
        Sub(Add(Add(Sub(Sub(Mul(Mul(self.m14, self.m23), self.m41), Mul(Mul(self.m13,
            self.m24), self.m41)), Mul(Mul(self.m14, self.m21), self.m43)),
            Mul(Mul(self.m11, self.m24), self.m43)), Mul(Mul(self.m13, self.m21),
            self.m44)), Mul(Mul(self.m11, self.m23), self.m44)),
        Add(Sub(Sub(Add(Sub(Mul(Mul(self.m13, self.m24), self.m31), Mul(Mul(self.m14,
            self.m23), self.m31)), Mul(Mul(self.m14, self.m21), self.m33)),
            Mul(Mul(self.m11, self.m24), self.m33)), Mul(Mul(self.m13, self.m21),
            self.m34)), Mul(Mul(self.m11, self.m23), self.m34)),
        Add(Sub(Sub(Add(Sub(Mul(Mul(self.m22, self.m34), self.m41), Mul(Mul(self.m24,
            self.m32), self.m41)), Mul(Mul(self.m24, self.m31), self.m42)),
            Mul(Mul(self.m21, self.m34), self.m42)), Mul(Mul(self.m22, self.m31),
            self.m44)), Mul(Mul(self.m21, self.m32), self.m44)),
        Sub(Add(Add(Sub(Sub(Mul(Mul(self.m14, self.m32), self.m41), Mul(Mul(self.m12,
            self.m34), self.m41)), Mul(Mul(self.m14, self.m31), self.m42)),
            Mul(Mul(self.m11, self.m34), self.m42)), Mul(Mul(self.m12, self.m31),
            self.m44)), Mul(Mul(self.m11, self.m32), self.m44)),
        Add(Sub(Sub(Add(Sub(Mul(Mul(self.m12, self.m24), self.m41), Mul(Mul(self.m14,
            self.m22), self.m41)), Mul(Mul(self.m14, self.m21), self.m42)),
            Mul(Mul(self.m11, self.m24), self.m42)), Mul(Mul(self.m12, self.m21),
            self.m44)), Mul(Mul(self.m11, self.m22), self.m44)),
        Sub(Add(Add(Sub(Sub(Mul(Mul(self.m14, self.m22), self.m31), Mul(Mul(self.m12,
            self.m24), self.m31)), Mul(Mul(self.m14, self.m21), self.m32)),
            Mul(Mul(self.m11, self.m24), self.m32)), Mul(Mul(self.m12, self.m21),
            self.m34)), Mul(Mul(self.m11, self.m22), self.m34)),
        Sub(Add(Add(Sub(Sub(Mul(Mul(self.m23, self.m32), self.m41), Mul(Mul(self.m22,
            self.m33), self.m41)), Mul(Mul(self.m23, self.m31), self.m42)),
            Mul(Mul(self.m21, self.m33), self.m42)), Mul(Mul(self.m22, self.m31),
            self.m43)), Mul(Mul(self.m21, self.m32), self.m43)),
        Add(Sub(Sub(Add(Sub(Mul(Mul(self.m12, self.m33), self.m41), Mul(Mul(self.m13,
            self.m32), self.m41)), Mul(Mul(self.m13, self.m31), self.m42)),
            Mul(Mul(self.m11, self.m33), self.m42)), Mul(Mul(self.m12, self.m31),
            self.m43)), Mul(Mul(self.m11, self.m32), self.m43)),
        Sub(Add(Add(Sub(Sub(Mul(Mul(self.m13, self.m22), self.m41), Mul(Mul(self.m12,
            self.m23), self.m41)), Mul(Mul(self.m13, self.m21), self.m42)),
            Mul(Mul(self.m11, self.m23), self.m42)), Mul(Mul(self.m12, self.m21),
            self.m43)), Mul(Mul(self.m11, self.m22), self.m43)),
        Add(Sub(Sub(Add(Sub(Mul(Mul(self.m12, self.m23), self.m31), Mul(Mul(self.m13,
            self.m22), self.m31)), Mul(Mul(self.m13, self.m21), self.m32)),
            Mul(Mul(self.m11, self.m23), self.m32)), Mul(Mul(self.m12, self.m21),
            self.m33)), Mul(Mul(self.m11, self.m22), self.m33)))

\* faulty variant of invert: no test of det == 0.0
invert_nocheck(self) ==
    LET det == determinant(self)
    IN  mul_s(adjugate(self), Div(One, det))

\* faulty variant of invert: the adjugate is not scaled by 1/det
invert_noscale(self) ==
    LET det == determinant(self)
    IN  IF Eq(det, Zero) THEN identity ELSE adjugate(self)

invert(self) ==
    LET det == determinant(self)
    IN  IF Eq(det, Zero) THEN identity
        ELSE mul_s(adjugate(self), Div(One, det))

\* faulty variant of scale: whole rows 1..3 are scaled
scale_rows(self, x, y, z) ==
    new(
        Mul(self.m11, x),
        Mul(self.m12, x),
        Mul(self.m13, x),
        Mul(self.m14, x),
        Mul(self.m21, y),
        Mul(self.m22, y),
        Mul(self.m23, y),
        Mul(self.m24, y),
        Mul(self.m31, z),
        Mul(self.m32, z),
        Mul(self.m33, z),
        Mul(self.m34, z),
        self.m41,
        self.m42,
        self.m43,
        self.m44)

scale(self, x, y, z) ==
    new(
        Mul(self.m11, x),
        self.m12,
        self.m13,
        self.m14,
        self.m21,
        Mul(self.m22, y),
        self.m23,
        self.m24,
        self.m31,
        self.m32,
        Mul(self.m33, z),
        self.m34,
        self.m41,
        self.m42,
        self.m43,
        self.m44)

\* faulty variant of transform_point: the translation m41, m42 left out
transform_point_linear(self, p) ==
    Point2D_new(Add(Mul(p.x, self.m11), Mul(p.y, self.m21)),
                Add(Mul(p.x, self.m12), Mul(p.y, self.m22)))

transform_point(self, p) ==
    Point2D_new(Add(Add(Mul(p.x, self.m11), Mul(p.y, self.m21)), self.m41),
                Add(Add(Mul(p.x, self.m12), Mul(p.y, self.m22)), self.m42))

transform_point4d(self, p) ==
    LET x == Add(Add(Add(Mul(p.x, self.m11), Mul(p.y, self.m21)), Mul(p.z, self.m31)), self.m41)
        y == Add(Add(Add(Mul(p.x, self.m12), Mul(p.y, self.m22)), Mul(p.z, self.m32)), self.m42)
        z == Add(Add(Add(Mul(p.x, self.m13), Mul(p.y, self.m23)), Mul(p.z, self.m33)), self.m43)
        w == Add(Add(Add(Mul(p.x, self.m14), Mul(p.y, self.m24)), Mul(p.z, self.m34)), self.m44)
    IN  Point4D_new(x, y, z, w)

\* faulty variant of ortho: m33 without its minus sign
ortho_posz(left, right, bottom, top, near, far) ==
    LET tx == Neg(Div(Add(right, left), Sub(right, left)))
        ty == Neg(Div(Add(top, bottom), Sub(top, bottom)))
        tz == Neg(Div(Add(far, near), Sub(far, near)))
    IN  new(Div(F(2), Sub(right, left)), Zero, Zero, Zero,
            Zero, Div(F(2), Sub(top, bottom)), Zero, Zero,
            Zero, Zero, Div(F(2), Sub(far, near)), Zero,
            tx, ty, tz, One)

ortho(left, right, bottom, top, near, far) ==
    LET tx == Neg(Div(Add(right, left), Sub(right, left)))
        ty == Neg(Div(Add(top, bottom), Sub(top, bottom)))
        tz == Neg(Div(Add(far, near), Sub(far, near)))
    IN  new(Div(F(2), Sub(right, left)), Zero, Zero, Zero,
            Zero, Div(F(2), Sub(top, bottom)), Zero, Zero,
            Zero, Zero, Div(F(-2), Sub(far, near)), Zero,
            tx, ty, tz, One)

\* faulty variant of translate: the translation multiplied on the other side
translate_after(self, x, y, z) ==
    LET matrix == new(One,  Zero, Zero, Zero,
                      Zero, One,  Zero, Zero,
                      Zero, Zero, One,  Zero,
                      x,    y,    z,    One)
    IN  mul(matrix, self)

translate(self, x, y, z) ==
    LET matrix == new(One,  Zero, Zero, Zero,
                      Zero, One,  Zero, Zero,
                      Zero, Zero, One,  Zero,
                      x,    y,    z,    One)
    IN  mul(self, matrix)

create_translation(x, y, z) ==
    new(One,  Zero, Zero, Zero,
        Zero, One,  Zero, Zero,
        Zero, Zero, One,  Zero,
        x,    y,    z,    One)

create_scale(x, y, z) ==
    new(x,    Zero, Zero, Zero,
        Zero, y,    Zero, Zero,
        Zero, Zero, z,    Zero,
        Zero, Zero, Zero, One)

(***************************************************************************)
(* Typed points: Point2D<Length<Unit, T>> and its numeric casts.  The      *)
(* target type T1 is "f32" or "usize".                                     *)
(***************************************************************************)
Some(v) == [some |-> TRUE, value |-> v]

None == [some |-> FALSE]

\* the outcome of a call that panics
Panic == [panic |-> TRUE]

\* Option::unwrap
unwrap(o) == IF o.some THEN o.value ELSE Panic

\* NumCast::from into T1: a value only when T1 represents n exactly
NumCast_from(n, T1) ==
    IF T1 = "usize"
    THEN (IF IsFinite(n) /\ n[2] = 1 /\ n[1] >= 0 THEN Some(n) ELSE None)
    ELSE (IF n = NaN \/ IsFinite(n) THEN Some(n) ELSE None)

Length_new(x) == [length |-> x]

Length_get(self) == self.length

Length_cast(self, T1) ==
    LET n == NumCast_from(Length_get(self), T1)
    IN  IF n.some THEN Some(Length_new(n.value)) ELSE None

typed(x, y) == Point2D_new(Length_new(x), Length_new(y))

\* faulty variant of Point2D_cast: a failed cast of y is replaced by zero
Point2D_cast_lenient(self, T1) ==
    LET x == Length_cast(self.x, T1)
        y == Length_cast(self.y, T1)
    IN  IF x.some
        THEN Some(Point2D_new(x.value, IF y.some THEN y.value ELSE Length_new(Zero)))
        ELSE None

Point2D_cast(self, T1) ==
    LET x == Length_cast(self.x, T1)
        y == Length_cast(self.y, T1)
    IN  IF x.some /\ y.some THEN Some(Point2D_new(x.value, y.value)) ELSE None

as_f32(self) == unwrap(Point2D_cast(self, "f32"))

as_uint(self) == unwrap(Point2D_cast(self, "usize"))

(***************************************************************************)
(* Inputs.  Matrices are given by their integer rows.                      *)
(***************************************************************************)
FromRows(r) ==
    new(F(r[1][1]), F(r[1][2]), F(r[1][3]), F(r[1][4]),
        F(r[2][1]), F(r[2][2]), F(r[2][3]), F(r[2][4]),
        F(r[3][1]), F(r[3][2]), F(r[3][3]), F(r[3][4]),
        F(r[4][1]), F(r[4][2]), F(r[4][3]), F(r[4][4]))

Perms == {q \in [1..4 -> 1..4] : \A i, j \in 1..4 : q[i] = q[j] => i = j}

ValVecs == {<<1, 1, 1, 1>>, <<2, 3, 5, 7>>, <<-1, 2, -3, 4>>}

\* the generalised permutation matrix with v[i] at (i, q[i])
PermRows(q, v) == [i \in 1..4 |-> [j \in 1..4 |-> IF q[i] = j THEN v[i] ELSE 0]]

WithEntry(r, i, j, e) == [r EXCEPT ![i][j] = @ + e]

ZeroRow(r, i) == [r EXCEPT ![i] = [j \in 1..4 |-> 0]]

DenseSingular == <<<<1, 2, 3, 4>>, <<5, 6, 7, 8>>, <<9, 10, 11, 12>>, <<13, 14, 15, 16>>>>

DenseA == <<<<2, -1, 0, 3>>, <<1, 4, -2, 0>>, <<0, 5, 1, -1>>, <<3, 0, 2, 1>>>>

DenseB == <<<<1, 2, -1, 3>>, <<2, 1, 4, -1>>, <<-1, 3, 2, 1>>, <<3, -2, 1, 2>>>>

DenseRows == {DenseSingular, DenseA, DenseB}

PermFamily == {PermRows(q, v) : q \in Perms, v \in ValVecs}

\* the matrices to perturb: the permutation matrices of 2, 3, 5, 7 and the dense ones
BaseRows == {PermRows(q, <<2, 3, 5, 7>>) : q \in Perms} \cup DenseRows

MatrixRows ==
    PermFamily
    \cup DenseRows
    \cup {ZeroRow(r, i) : r \in BaseRows, i \in 1..4}
    \cup {WithEntry(r, i, j, e) : r \in BaseRows, i \in 1..4, j \in 1..4, e \in 1..MaxEntry}

Coords == {F(n) : n \in -MaxCoord..MaxCoord}

Factors == {F(n) : n \in -1..MaxFactor} \cup {Norm(1, 2)}

Triples(S) == {<<x, y, z>> : x \in S, y \in S, z \in S}

TranslationArgs ==
    Triples(Coords)
    \cup {<<F(100), F(200), F(0)>>, <<F(-132), Norm(3, 10), F(493)>>}

ScaleArgs ==
    Triples({F(1), F(MaxFactor)})
    \cup {<<F(0), F(1), F(1)>>, <<F(-1), Norm(1, 2), F(3)>>,
          <<Norm(3, 2), Norm(3, 10), Norm(21, 10)>>}

Points2D ==
    {Point2D_new(x, y) : x \in Coords, y \in Coords}
    \cup {Point2D_new(F(1000), F(2000)), Point2D_new(F(4), F(7)), Point2D_new(F(13), F(8))}

Points3D ==
    {Point3D_new(x, y, z) : x \in Coords, y \in Coords, z \in Coords}
    \cup {Point3D_new(F(4), F(7), F(9)), Point3D_new(F(13), F(8), F(3))}

\* the points given to transform_point
TransformArgs ==
    {Point2D_new(F(0), F(0)), Point2D_new(F(1), F(0)), Point2D_new(F(0), F(1)),
     Point2D_new(F(-1), F(2)), Point2D_new(F(1000), F(2000))}

\* the points given to transform_point4d, with w = 0, 1 and above
Points4D ==
    {Point4D_new(F(t[1]), F(t[2]), F(t[3]), F(w)) :
        t \in {<<0, 0, 0>>, <<1, 0, 0>>, <<0, 1, 0>>, <<0, 0, 1>>, <<1, -2, 3>>},
        w \in 0..(MaxCoord + 1)}

TranslateArgs ==
    {<<F(1), F(2), F(3)>>, <<F(-1), F(0), F(2)>>, <<Norm(1, 2), F(0), F(0)>>}

\* the view boxes given to ortho, all with left # right, bottom # top and
\* near # far, and the box of test_ortho
OrthoArgs ==
    {<<F(l), F(r), F(b), F(t), F(n), F(f)>> :
        l \in {0, 1}, r \in {2, 3}, b \in {-2, 0, 1}, t \in {2, 3},
        n \in {-3, -1, 0}, f \in {1, 2}}
    \cup {<<F(0), F(1), Norm(1, 10), F(1), F(-1), F(1)>>}

\* the components of typed points: the grid and a fraction
TypedCoords == Coords \cup {Norm(1, 2)}

CastTargets == {"f32", "usize"}

MulArgs ==
    {identity, FromRows(DenseA), FromRows(DenseB),
     create_translation(F(1), F(2), F(3)),
     create_scale(F(2), Norm(1, 2), F(-1))}

(***************************************************************************)
(* The state machine: construct a value, then apply one operation.         *)
(***************************************************************************)
NoValue == [none |-> TRUE]

MatrixCtors == {"new", "identity", "create_translation", "create_scale", "ortho"}

Init ==
    /\ pc = "new"
    /\ ctor = "none"
    /\ cargs = NoValue
    /\ recv = NoValue
    /\ op = "none"
    /\ args = NoValue
    /\ out = NoValue

Construct(name, a, value) ==
    /\ pc = "new"
    /\ pc' = "built"
    /\ ctor' = name
    /\ cargs' = a
    /\ recv' = value
    /\ UNCHANGED <<op, args, out>>

New == \E r \in MatrixRows : Construct("new", r, FromRows(r))

Identity == Construct("identity", <<>>, identity)

CreateTranslation ==
    \E t \in TranslationArgs :
        Construct("create_translation", t, create_translation(t[1], t[2], t[3]))

CreateScale ==
    \E t \in ScaleArgs : Construct("create_scale", t, create_scale(t[1], t[2], t[3]))

Point2DNew == \E q \in Points2D : Construct("Point2D::new", <<q.x, q.y>>, q)

Point3DNew == \E q \in Points3D : Construct("Point3D::new", <<q.x, q.y, q.z>>, q)

Ortho ==
    \E a \in OrthoArgs :
        Construct("ortho", a, ortho(a[1], a[2], a[3], a[4], a[5], a[6]))

Typed == \E x \in TypedCoords, y \in TypedCoords : Construct("typed", <<x, y>>, typed(x, y))

Apply(kind, name, a, result) ==
    /\ pc = "built"
    /\ ctor \in kind
    /\ pc' = "done"
    /\ op' = name
    /\ args' = a
    /\ out' = result
    /\ UNCHANGED <<ctor, cargs, recv>>

MulOp == \E m \in MulArgs : Apply(MatrixCtors, "mul", [m |-> m], mul(recv, m))

Invert == Apply(MatrixCtors, "invert", NoValue, invert(recv))

Determinant == Apply(MatrixCtors, "determinant", NoValue, determinant(recv))

MulS == \E x \in Factors : Apply(MatrixCtors, "mul_s", [x |-> x], mul_s(recv, x))

Scale ==
    \E t \in ScaleArgs :
        Apply(MatrixCtors, "scale", [x |-> t[1], y |-> t[2], z |-> t[3]],
              scale(recv, t[1], t[2], t[3]))

TransformPoint ==
    \E p \in TransformArgs :
        Apply(MatrixCtors, "transform_point", [p |-> p], transform_point(recv, p))

TransformPoint4d ==
    \E p \in Points4D :
        Apply(MatrixCtors, "transform_point4d", [p |-> p], transform_point4d(recv, p))

Cross2D ==
    \E other \in Points2D :
        Apply({"Point2D::new"}, "cross", [other |-> other], Point2D_cross(recv, other))

Cross3D ==
    \E other \in Points3D :
        Apply({"Point3D::new"}, "cross", [other |-> other], Point3D_cross(recv, other))

Translate ==
    \E t \in TranslateArgs :
        Apply(MatrixCtors, "translate", [x |-> t[1], y |-> t[2], z |-> t[3]],
              translate(recv, t[1], t[2], t[3]))

Cast ==
    \E T1 \in CastTargets :
        Apply({"typed"}, "cast", [T1 |-> T1], Point2D_cast(recv, T1))

AsF32 == Apply({"typed"}, "as_f32", NoValue, as_f32(recv))

AsUint == Apply({"typed"}, "as_uint", NoValue, as_uint(recv))

Next ==
    \/ New
    \/ Identity
    \/ CreateTranslation
    \/ CreateScale
    \/ Point2DNew
    \/ Point3DNew
    \/ MulOp
    \/ Invert
    \/ Determinant
    \/ MulS
    \/ Scale
    \/ TransformPoint
    \/ TransformPoint4d
    \/ Translate
    \/ Cross2D
    \/ Cross3D
    \/ Ortho
    \/ Typed
    \/ Cast
    \/ AsF32
    \/ AsUint

Spec == Init /\ [][Next]_vars

(***************************************************************************)
(* Reference definitions used by the properties: entries by index, the     *)
(* textbook row-by-column product and the Laplace expansion.               *)
(***************************************************************************)
FieldName ==
    <<<<"m11", "m12", "m13", "m14">>, <<"m21", "m22", "m23", "m24">>,
      <<"m31", "m32", "m33", "m34">>, <<"m41", "m42", "m43", "m44">>>>

\* entry (i, j) of matrix a
At(a, i, j) == a[FieldName[i][j]]

\* sum over k of a[i][k] * b[k][j]
RowByColumn(a, b, i, j) ==
    Add(Add(Add(Mul(At(a, i, 1), At(b, 1, j)), Mul(At(a, i, 2), At(b, 2, j))),
            Mul(At(a, i, 3), At(b, 3, j))),
        Mul(At(a, i, 4), At(b, 4, j)))

\* the rows of matrix a as a sequence of sequences
RowsOf(a) == [i \in 1..4 |-> [j \in 1..4 |-> At(a, i, j)]]

\* sequence s without its element j
Without(s, j) == [k \in 1..(Len(s) - 1) |-> IF k < j THEN s[k] ELSE s[k + 1]]

\* rows r without row 1 and column j
Minor(r, j) == [i \in 1..(Len(r) - 1) |-> Without(r[i + 1], j)]

RECURSIVE Laplace(_)
RECURSIVE LaplaceSum(_, _)
\* cofactor expansion of the square matrix with rows r along its first row
Laplace(r) == IF Len(r) = 1 THEN r[1][1] ELSE LaplaceSum(r, Len(r))

\* the first n terms of the expansion
LaplaceSum(r, n) ==
    IF n = 0 THEN Zero
    ELSE LET cofactor == Mul(r[1][n], Laplace(Minor(r, n)))
         IN  Add(LaplaceSum(r, n - 1),
                 IF n % 2 = 1 THEN cofactor ELSE Neg(cofactor))

HasZeroRow(a) == \E i \in 1..4 : \A j \in 1..4 : At(a, i, j) = Zero

IsDense(a) == \A f \in Fields : a[f] # Zero

IsFiniteMatrix(a) == \A f \in Fields : IsFinite(a[f])

(***************************************************************************)
(* Properties                                                              *)
(***************************************************************************)

\* C1: invert of a matrix whose determinant() is exactly 0 (in particular a
\* matrix with an all-zero row) returns exactly identity(), with no NaN or
\* Inf entry.
InvertSingularIsIdentity ==
    op = "invert" /\ Eq(determinant(recv), Zero)
        => out = identity /\ IsFiniteMatrix(out)

InvertZeroRowWitness ==
    /\ op = "invert"
    /\ HasZeroRow(recv)
    /\ Eq(determinant(recv), Zero)
    /\ out = identity

\* C2: for a matrix M with determinant(M) # 0, M.mul(M.invert()) is the
\* identity, and M times the adjugate that invert computes is determinant(M)
\* times the identity.
InverseLaw ==
    op = "invert" /\ ~Eq(determinant(recv), Zero)
        => /\ mul(recv, out) = identity
           /\ mul(recv, adjugate(recv)) = mul_s(identity, determinant(recv))

InverseLawWitness ==
    /\ op = "invert"
    /\ IsDense(recv)
    /\ determinant(recv) \notin {Zero, One, F(-1)}
    /\ out # recv
    /\ mul(recv, out) = identity

\* C3: identity() is a left and a right unit of mul: M.mul(identity()) = M
\* and identity().mul(M) = M.
IdentityLaws ==
    /\ op = "mul" /\ args.m = identity => out = recv
    /\ op = "mul" /\ recv = identity => out = args.m
    /\ pc = "built" /\ ctor \in MatrixCtors => mul(identity, recv) = recv

IdentityLawsWitness ==
    /\ op = "mul"
    /\ args.m = identity
    /\ IsDense(recv)
    /\ out = recv

\* C4 as stated: self.mul(other) has entries
\* result[i][j] = sum over k of self[i][k] * other[k][j].
MulIsSelfTimesOther ==
    op = "mul" =>
        \A i, j \in 1..4 : At(out, i, j) = RowByColumn(recv, args.m, i, j)

\* C4 amended: self.mul(other) has entries
\* result[i][j] = sum over k of other[i][k] * self[k][j]: row i of the result
\* is the combination of self's rows weighted by the entries of other's row i.
MulIsOtherTimesSelf ==
    op = "mul" =>
        \A i, j \in 1..4 : At(out, i, j) = RowByColumn(args.m, recv, i, j)

MulOrderWitness ==
    /\ op = "mul"
    /\ \E i, j \in 1..4 :
           RowByColumn(args.m, recv, i, j) # RowByColumn(recv, args.m, i, j)
    /\ \A i, j \in 1..4 : At(out, i, j) = RowByColumn(args.m, recv, i, j)

\* C5: transform_point4d is the full homogeneous transform: output component
\* j is x*M[1][j] + y*M[2][j] + z*M[3][j] + w*M[4][j], also when w # 1.
TransformPoint4dIsHomogeneous ==
    op = "transform_point4d" =>
        LET p == args.p
            component(j) ==
                Add(Add(Add(Mul(p.x, At(recv, 1, j)), Mul(p.y, At(recv, 2, j))),
                        Mul(p.z, At(recv, 3, j))),
                    Mul(p.w, At(recv, 4, j)))
        IN  out = Point4D_new(component(1), component(2), component(3), component(4))

\* C6: determinant is the mathematical 4x4 determinant (cofactor expansion)
\* of the 16 entries.
DeterminantIsLaplace ==
    op = "determinant" => out = Laplace(RowsOf(recv))

DeterminantWitness ==
    /\ op = "determinant"
    /\ IsDense(recv)
    /\ out # Zero
    /\ out = Laplace(RowsOf(recv))

\* C7: for T = create_translation(tx,ty,tz): T.invert().mul(T) is the
\* identity, T.transform_point(p) = (p.x+tx, p.y+ty), and T.invert() maps
\* that point back to p.
TranslationRoundTrip ==
    /\ ctor = "create_translation" /\ op = "invert" => mul(out, recv) = identity
    /\ ctor = "create_translation" /\ op = "transform_point" =>
           /\ out = Point2D_new(Add(args.p.x, cargs[1]), Add(args.p.y, cargs[2]))
           /\ transform_point(invert(recv), out) = args.p

TranslationRoundTripWitness ==
    /\ ctor = "create_translation"
    /\ cargs = <<F(100), F(200), F(0)>>
    /\ op = "transform_point"
    /\ args.p = Point2D_new(F(1000), F(2000))
    /\ out = Point2D_new(F(1100), F(2200))
    /\ transform_point(invert(recv), out) = Point2D_new(F(1000), F(2000))

\* C8: scale(x,y,z) multiplies m11, m22, m33 by x, y, z and leaves the other
\* 13 entries as they are; so it differs from self.mul(create_scale(x,y,z))
\* when an off-diagonal entry of rows/columns 1..3 is non-zero and changed by
\* the factors, and identity().scale(x,y,z) = create_scale(x,y,z).
ScaleTouchesDiagonalOnly ==
    op = "scale" =>
        LET composed == mul(recv, create_scale(args.x, args.y, args.z))
        IN  /\ out.m11 = Mul(recv.m11, args.x)
            /\ out.m22 = Mul(recv.m22, args.y)
            /\ out.m33 = Mul(recv.m33, args.z)
            /\ \A f \in Fields \ {"m11", "m22", "m33"} : out[f] = recv[f]
            /\ (\E i, j \in 1..3 :
                    /\ i # j
                    /\ At(recv, i, j) # Zero
                    /\ At(composed, i, j) # At(recv, i, j))
                   => out # composed
            /\ recv = identity => out = create_scale(args.x, args.y, args.z)

ScaleWitness ==
    /\ op = "scale"
    /\ \E i, j \in 1..3 :
           /\ i # j
           /\ At(recv, i, j) # Zero
           /\ At(mul(recv, create_scale(args.x, args.y, args.z)), i, j) # At(recv, i, j)
    /\ out # mul(recv, create_scale(args.x, args.y, args.z))
    /\ out # recv

\* C9: M.mul_s(a).mul_s(b) equals M.mul_s(a*b) entry by entry.
MulSComposes ==
    op = "mul_s" =>
        \A b \in Factors : mul_s(out, b) = mul_s(recv, Mul(args.x, b))

MulSWitness ==
    /\ op = "mul_s"
    /\ IsDense(recv)
    /\ args.x = Norm(1, 2)
    /\ mul_s(out, F(2)) = recv

\* C10: Point2D::cross is a.x*b.y - a.y*b.x and Point3D::cross is the
\* right-handed vector product; (4,7) x (13,8) = -59 and
\* (4,7,9) x (13,8,3) = (-51,105,-59).
CrossProducts ==
    /\ ctor = "Point2D::new" /\ op = "cross" =>
           LET a == recv
               b == args.other
           IN  /\ out = F(a.x[1] * b.y[1] - a.y[1] * b.x[1])
               /\ a = Point2D_new(F(4), F(7)) /\ b = Point2D_new(F(13), F(8))
                      => out = F(-59)
    /\ ctor = "Point3D::new" /\ op = "cross" =>
           LET a == recv
               b == args.other
           IN  /\ out = Point3D_new(F(a.y[1] * b.z[1] - a.z[1] * b.y[1]),
                                    F(a.z[1] * b.x[1] - a.x[1] * b.z[1]),
                                    F(a.x[1] * b.y[1] - a.y[1] * b.x[1]))
               /\ a = Point3D_new(F(4), F(7), F(9)) /\ b = Point3D_new(F(13), F(8), F(3))
                      => out = Point3D_new(F(-51), F(105), F(-59))

CrossWitness ==
    /\ ctor = "Point3D::new"
    /\ op = "cross"
    /\ recv = Point3D_new(F(4), F(7), F(9))
    /\ args.other = Point3D_new(F(13), F(8), F(3))
    /\ out = Point3D_new(F(-51), F(105), F(-59))

\* C11: typed Point2D::cast returns Some exactly when the casts of both x
\* and y succeed and None when either fails, without panicking; as_f32 and
\* as_uint return the point of cast when it succeeds and panic exactly when
\* cast returns None.
TypedCastIsAllOrNothing ==
    /\ op = "cast" =>
           LET x == Length_cast(recv.x, args.T1)
               y == Length_cast(recv.y, args.T1)
           IN  /\ out # Panic
               /\ out.some <=> x.some /\ y.some
               /\ out.some => out.value = Point2D_new(x.value, y.value)
               /\ ~out.some => out = None
    /\ op = "as_f32" =>
           LET c == Point2D_cast(recv, "f32")
           IN  /\ c.some => out = c.value
               /\ out = Panic <=> ~c.some
    /\ op = "as_uint" =>
           LET c == Point2D_cast(recv, "usize")
           IN  /\ c.some => out = c.value
               /\ out = Panic <=> ~c.some

TypedCastWitness ==
    /\ op = "cast"
    /\ args.T1 = "usize"
    /\ Length_cast(recv.x, "usize").some
    /\ ~Length_cast(recv.y, "usize").some
    /\ out = None

\* 2 / (hi - lo), computed on numerators and denominators
TwoOverSpan(lo, hi) == Norm(2 * hi[2] * lo[2], hi[1] * lo[2] - lo[1] * hi[2])

\* -((hi + lo) / (hi - lo)), computed on numerators and denominators
NegMidRatio(lo, hi) ==
    Norm(-(hi[1] * lo[2] + lo[1] * hi[2]), hi[1] * lo[2] - lo[1] * hi[2])

\* C12: for left # right, bottom # top, near # far, ortho has
\* m11 = 2/(right-left), m22 = 2/(top-bottom), m33 = -2/(far-near),
\* m41, m42, m43 the negated midpoint ratios, m44 = 1 and zeros elsewhere;
\* transform_point4d sends (left,bottom,-near,1) to (-1,-1,-1,1) and
\* (right,top,-far,1) to (1,1,1,1); ortho(0,1,0.1,1,-1,1) has m11 = 2,
\* m22 = 20/9, m33 = -1, m41 = -1, m42 = -11/9, m43 = 0.
OrthoMapsBoxToCube ==
    ctor = "ortho" =>
        LET left == cargs[1]
            right == cargs[2]
            bottom == cargs[3]
            top == cargs[4]
            near == cargs[5]
            far == cargs[6]
            nearCorner == Point4D_new(left, bottom, Neg(near), One)
            farCorner == Point4D_new(right, top, Neg(far), One)
        IN  left # right /\ bottom # top /\ near # far =>
                /\ recv = new(TwoOverSpan(left, right), Zero, Zero, Zero,
                              Zero, TwoOverSpan(bottom, top), Zero, Zero,
                              Zero, Zero, Neg(TwoOverSpan(near, far)), Zero,
                              NegMidRatio(left, right), NegMidRatio(bottom, top),
                              NegMidRatio(near, far), One)
                /\ transform_point4d(recv, nearCorner)
                       = Point4D_new(F(-1), F(-1), F(-1), F(1))
                /\ transform_point4d(recv, farCorner)
                       = Point4D_new(F(1), F(1), F(1), F(1))
                /\ op = "transform_point4d" /\ args.p = nearCorner
                       => out = Point4D_new(F(-1), F(-1), F(-1), F(1))
                /\ cargs = <<F(0), F(1), Norm(1, 10), F(1), F(-1), F(1)>>
                       => recv = new(F(2), Zero, Zero, Zero,
                                     Zero, Norm(20, 9), Zero, Zero,
                                     Zero, Zero, F(-1), Zero,
                                     F(-1), Norm(-11, 9), Zero, One)

OrthoWitness ==
    /\ ctor = "ortho"
    /\ op = "transform_point4d"
    /\ cargs[1] # Zero
    /\ args.p = Point4D_new(cargs[1], cargs[3], Neg(cargs[5]), One)
    /\ out = Point4D_new(F(-1), F(-1), F(-1), F(1))

\* the fourth column is (0, 0, 0, 1)
IsAffine(a) == a.m14 = Zero /\ a.m24 = Zero /\ a.m34 = Zero /\ a.m44 = One

\* the points with w = 1
UnitPoints4D == {p \in Points4D : p.w = One}

\* point p moved by (x, y, z)
Moved(p, x, y, z) == Point4D_new(Add(p.x, x), Add(p.y, y), Add(p.z, z), p.w)

\* C13: for affine A and B and a point p with w = 1,
\* A.mul(B).transform_point4d(p) = A.transform_point4d(B.transform_point4d(p)):
\* the argument of mul is applied first and the receiver second; hence
\* self.translate(x,y,z) = self.mul(create_translation(x,y,z)) translates
\* the point before applying self.
CompositionOrder ==
    /\ op = "mul" /\ IsAffine(recv) /\ IsAffine(args.m) =>
           \A p \in UnitPoints4D :
               transform_point4d(out, p)
                   = transform_point4d(recv, transform_point4d(args.m, p))
    /\ op = "translate" =>
           /\ out = mul(recv, create_translation(args.x, args.y, args.z))
           /\ \A p \in UnitPoints4D :
                  transform_point4d(out, p)
                      = transform_point4d(recv, Moved(p, args.x, args.y, args.z))

CompositionOrderWitness ==
    /\ op = "translate"
    /\ IsAffine(recv)
    /\ out # mul(create_translation(args.x, args.y, args.z), recv)
    /\ \E p \in UnitPoints4D :
           /\ transform_point4d(out, p)
                  = transform_point4d(recv, Moved(p, args.x, args.y, args.z))
           /\ transform_point4d(out, p)
                  # Moved(transform_point4d(recv, p), args.x, args.y, args.z)

====
